---- MODULE Spec2Model ----
(***************************************************************************)
(* Model of the TS-to-MP4 converter.                                       *)
(*                                                                         *)
(* Five entry points of the repository are modelled, one per value of      *)
(* prog:                                                                   *)
(*   "main"          main.py: the batch loop over the input files, each    *)
(*                   converted by VideoProcessor.convert_video;            *)
(*   "converter"     converter.py: convert_video of the standalone script, *)
(*                   step by step (probe, create_chunks, convert_chunk,    *)
(*                   merge_chunks, cleanup);                               *)
(*   "create_chunks" converter.py's create_chunks called by a client with  *)
(*                   a chunk duration of its own;                          *)
(*   "processor_api" VideoProcessor.create_optimized_chunks called by a    *)
(*                   client on one VideoProcessor, several times;          *)
(*   "encoder_api"   VideoProcessor.convert_chunk and merge_chunks called  *)
(*                   by a client on one VideoProcessor.                    *)
(*                                                                         *)
(* Times are whole seconds.  Floating-point rounding of duration /         *)
(* chunk_duration is not modelled: the arithmetic is exact.                *)
(* The external engine (ffprobe, ffmpeg) is the environment: each call     *)
(* nondeterministically succeeds, leaves no file or an empty one, or       *)
(* cannot be started.  CPU shares are whole percents.                      *)
(***************************************************************************)
EXTENDS Integers, Sequences, FiniteSets, TLC

VARIABLES
    prog,           \* which entry point runs: "main", "converter", "create_chunks",
                    \* "processor_api" or "encoder_api"
    \* ---- main.py
    args,           \* parsed arguments: delete_original, keep_failed, chunk_size
    files,          \* get_file_list's result: a sequence of input files
    originals,      \* indexes of the input files that are on disk
    idx,            \* the loop variable i of main (1-based)
    stats,          \* the stats dictionary of main
    runs,           \* the convert_video calls made so far, in order: what each
                    \* returned and what it did
    pc,             \* where main is: "start", "loop", "exited", "traceback"
    exit_status,    \* the process exit status once main has ended (-1 before)
    summary_stats,  \* the dictionary handed to print_summary
    \* ---- VideoProcessor
    host,           \* the machine: its cpu_count and whether the CPU affinity
                    \* can be applied
    processor,      \* the VideoProcessor instance: its intent and ffmpeg_params
    ret,            \* what the last direct call of a planner returned
    calls,          \* number of direct calls made
    call,           \* the last direct call of convert_chunk or merge_chunks:
                    \* its arguments, the engine command and what it returned
    \* ---- the filesystem and the engine
    temp_dirs,      \* the temporary directories that exist
    output_exists,  \* whether the final output file exists
    requests,       \* the extraction requests made to the engine, in order
    \* ---- converter.py convert_video
    cv              \* the locals of convert_video / create_chunks and their position

vars == <<prog, args, files, originals, idx, stats, runs, pc, exit_status,
          summary_stats, host, processor, ret, calls, call, temp_dirs,
          output_exists, requests, cv>>

----------------------------------------------------------------------------
(* Bounds of the model. *)

MaxFiles == 3           \* files in a batch
MaxChunks == 3          \* chunks of an input in the converter.py pipeline
MaxDuration == 7        \* durations a client's planner call is tried on: 1..MaxDuration
MaxChunkDuration == 3   \* chunk durations a client passes: 1..MaxChunkDuration
MaxCalls == 2           \* direct planner calls on one VideoProcessor

(* Program constants. *)

MIN_CHUNK_SIZE == 30
MAX_CHUNK_SIZE == 300
DEFAULT_KEYFRAME_INTERVAL == 10
CreateChunksDefault == 60   \* create_chunks(input_file, chunk_duration=60)
NoChunkSize == 0            \* args.chunk_size when -c is not given (None, falsy like 0)
NoTargetSize == 0           \* target_size=None
ExitClean == 0              \* main returned: the interpreter exits with status 0
ExitTraceback == 1          \* an uncaught exception ends the interpreter with status 1
NotExited == -1
DefaultCpuLimit == 10       \* --cpu-limit default 0.1, written in percent
NoTotalDuration == 0        \* self.total_duration before line 230 binds it

Min(a, b) == IF a <= b THEN a ELSE b
Max(a, b) == IF a >= b THEN a ELSE b

\* math.ceil(duration / chunk_duration) for duration >= 0, chunk_duration > 0
Ceil(duration, chunk_duration) == (duration + chunk_duration - 1) \div chunk_duration

----------------------------------------------------------------------------
(* The names bound in each module's namespace: its imports and its own     *)
(* definitions.  Reading any other global name raises NameError.           *)

processor_globals ==
    {"os", "subprocess", "tempfile", "shutil", "psutil", "multiprocessing",
     "ThreadPoolExecutor", "tqdm", "COMPRESSION_SETTINGS", "DEFAULT_FFMPEG_PARAMS",
     "MIN_CHUNK_SIZE", "MAX_CHUNK_SIZE", "DEFAULT_KEYFRAME_INTERVAL",
     "get_video_info", "calculate_target_bitrate", "VideoProcessor"}

converter_globals ==
    {"os", "Path", "subprocess", "argparse", "time", "sys", "datetime", "tqdm",
     "math", "tempfile", "shutil", "get_video_info", "create_chunks",
     "convert_chunk", "merge_chunks", "convert_video", "main"}

----------------------------------------------------------------------------
(* Inputs. *)

\* An input file of a batch.  on_disk: whether the path names a file (a single
\* input path is not checked, and a directory listing can hold a dangling
\* link).  duration and fate say what the engine would do with the file: they
\* are the hypotheses of the scenarios, the code learns them only by calling
\* the engine.
Fates == {"ok", "encode_fails", "output_empty"}
BatchDurations == {125, 1000, 4000}
FileKinds ==
    {[on_disk |-> FALSE, duration |-> 0, fate |-> "missing"]}
    \cup {[on_disk |-> TRUE, duration |-> d, fate |-> f] : d \in BatchDurations, f \in Fates}

RECURSIVE SeqsUpTo(_, _)
SeqsUpTo(S, n) ==
    IF n = 0 THEN {<<>>}
    ELSE LET shorter == SeqsUpTo(S, n - 1)
         IN  shorter \cup {Append(s, x) : s \in {t \in shorter : Len(t) = n - 1}, x \in S}

\* What get_video_info (utils.py) returns: None, or the probe's JSON, of which
\* the code reads format.duration and the first video stream's width and height.
Resolutions == {<<640, 480>>, <<1280, 720>>, <<1920, 1080>>, <<3840, 2160>>}
NoInfo == [ok |-> FALSE, duration |-> 0, has_video |-> FALSE, width |-> 0, height |-> 0]
VideoInfo(d, wh) == [ok |-> TRUE, duration |-> d, has_video |-> TRUE, width |-> wh[1], height |-> wh[2]]
AudioOnlyInfo(d) == [ok |-> TRUE, duration |-> d, has_video |-> FALSE, width |-> 0, height |-> 0]

get_video_info_results ==
    {NoInfo}
    \cup {VideoInfo(d, wh) : d \in 1..MaxDuration, wh \in Resolutions}
    \cup {AudioOnlyInfo(d) : d \in 1..MaxDuration}

\* The intents a VideoProcessor is constructed with by main: parse_arguments
\* puts --compress and --target-size in one mutually exclusive group.
Intents ==
    {[compression_level |-> "", target_size |-> NoTargetSize],
     [compression_level |-> "light", target_size |-> NoTargetSize],
     [compression_level |-> "", target_size |-> 50]}

\* What VideoProcessor(...) can be called with: __init__ takes compression_level
\* and target_size as independent keywords and checks neither against the other.
ConstructorArgs ==
    [compression_level : {"", "light"}, target_size : {NoTargetSize, 50}]

\* cpu_limit values, in percent, and the hosts a VideoProcessor is built on:
\* multiprocessing.cpu_count() and whether psutil can apply the affinity
\* (Process.cpu_affinity does not exist on every platform).
CpuLimits == {DefaultCpuLimit, 50, 100}
Hosts == [cpu_count : {1, 4, 8}, affinity_ok : BOOLEAN]
default_host == [cpu_count |-> 8, affinity_ok |-> TRUE]

\* A chunk file handed to convert_chunk: whether it exists, whether ffprobe
\* reads it and the duration ffprobe reports.
ChunkFiles ==
    {[exists |-> FALSE, info_ok |-> FALSE, duration |-> 0]}
    \cup {[exists |-> TRUE, info_ok |-> FALSE, duration |-> 0]}
    \cup {[exists |-> TRUE, info_ok |-> TRUE, duration |-> d] : d \in 0..MaxChunkDuration}

\* What a call of the engine (subprocess.run of ffmpeg) does: it writes the
\* output, leaves an empty output file, leaves no file, or cannot be started
\* (subprocess.run raises).
EngineOutcomes == {"written", "empty", "nofile", "raises"}

----------------------------------------------------------------------------
(* VideoProcessor (processor.py) *)

\* _set_cpu_affinity: max(1, int(cpu_count * cpu_limit)) when the affinity is
\* applied, 1 when anything in the try raises.
\* _set_cpu_affinity asking for int(cpu_count * cpu_limit) cores as it comes.
set_cpu_affinity_no_floor(cpu_limit, on_host) ==
    IF on_host.affinity_ok
    THEN (on_host.cpu_count * cpu_limit) \div 100
    ELSE 1

set_cpu_affinity(cpu_limit, on_host) ==
    IF on_host.affinity_ok
    THEN Max(1, (on_host.cpu_count * cpu_limit) \div 100)
    ELSE 1

\* __init__ and _init_ffmpeg_params: DEFAULT_FFMPEG_PARAMS['video_params'] copied
\* and extended by -crf <quality>.
DEFAULT_VIDEO_PARAMS == <<"-preset", "faster", "-tune", "fastdecode", "-movflags", "+faststart">>

\* total_duration is no attribute of a new instance: only line 230 of
\* convert_video binds it.
VideoProcessorInit(intent, cpu_limit, on_host) ==
    [cpu_limit |-> cpu_limit,
     compression_level |-> intent.compression_level,
     target_size |-> intent.target_size,
     cores_to_use |-> set_cpu_affinity(cpu_limit, on_host),
     total_duration |-> NoTotalDuration,
     video_params |-> DEFAULT_VIDEO_PARAMS \o <<"-crf", "23">>]

\* optimize_video_params: the video_params list after the call.  It is extended
\* in place; nothing is appended when the probe shows no video stream.
optimize_video_params(self, video_info) ==
    IF ~video_info.has_video THEN self.video_params
    ELSE
        LET width == video_info.width
            height == video_info.height
            pixels == width * height
            profile == IF width >= 1920 \/ height >= 1080
                       THEN <<"-profile:v", "high", "-level", "4.1">>
                       ELSE <<"-profile:v", "main", "-level", "3.1">>
            bitrate == IF self.compression_level = "" /\ self.target_size = NoTargetSize
                       THEN IF pixels > 2073600
                            THEN <<"-b:v", "5000k", "-maxrate", "7500k", "-bufsize", "10000k">>
                            ELSE IF pixels > 921600
                                 THEN <<"-b:v", "2500k", "-maxrate", "4000k", "-bufsize", "5000k">>
                                 ELSE <<>>
                       ELSE <<>>
        IN  self.video_params \o profile \o bitrate

\* The extraction requests of create_optimized_chunks' loop: chunk i (from 0)
\* is asked for with -ss i*chunk_duration and -t chunk_duration, key frames
\* forced every min(chunk_duration, DEFAULT_KEYFRAME_INTERVAL) seconds.
OptimizedChunkRequests(num_chunks, chunk_duration) ==
    [k \in 1..num_chunks |->
        [ss |-> (k - 1) * chunk_duration, t |-> chunk_duration,
         keyframe_interval |-> Min(chunk_duration, DEFAULT_KEYFRAME_INTERVAL)]]

\* create_optimized_chunks(input_file, temp_dir, chunk_duration): what it
\* returns, the requests it makes and the video_params it leaves.
\*   kind "list":  the bare [] of line 93 (the probe failed);
\*   kind "tuple": (chunks, duration); the except branch returns ([], None),
\*                 written here with duration 0.
\* math.ceil on line 98 reads the global math, after optimize_video_params ran.
create_optimized_chunks(self, video_info, chunk_duration) ==
    IF ~video_info.ok
    THEN [kind |-> "list", chunks |-> <<>>, duration |-> 0, requests |-> <<>>,
          video_params |-> self.video_params]
    ELSE
        LET params == optimize_video_params(self, video_info)
            num_chunks == Ceil(video_info.duration, chunk_duration)
        IN  IF "math" \notin processor_globals
            THEN [kind |-> "tuple", chunks |-> <<>>, duration |-> 0, requests |-> <<>>,
                  video_params |-> params]
            ELSE [kind |-> "tuple",
                  chunks |-> [k \in 1..num_chunks |-> k - 1],
                  duration |-> video_info.duration,
                  requests |-> OptimizedChunkRequests(num_chunks, chunk_duration),
                  video_params |-> params]

\* COMPRESSION_SETTINGS[level]: the scale, bitrate and audio flags, split.
COMPRESSION_SETTINGS(level) ==
    IF level = "light"
    THEN <<"-vf", "scale=-1:720",
           "-b:v", "1500k", "-maxrate", "2000k", "-bufsize", "2000k",
           "-ac", "2", "-ar", "44100", "-b:a", "128k">>
    ELSE IF level = "medium"
    THEN <<"-vf", "scale=-1:480",
           "-b:v", "1000k", "-maxrate", "1500k", "-bufsize", "1500k",
           "-ac", "2", "-ar", "44100", "-b:a", "96k">>
    ELSE <<"-vf", "scale=-1:360",
           "-b:v", "500k", "-maxrate", "700k", "-bufsize", "700k",
           "-ac", "2", "-ar", "44100", "-b:a", "64k">>

DEFAULT_AUDIO_PARAMS == <<"-ac", "2", "-ar", "44100">>

\* The numeric bitrate flags of a command; all 0 when it carries none.
NoRate == [b_v |-> 0, maxrate |-> 0, bufsize |-> 0, b_a |-> 0]

\* calculate_target_bitrate(duration, target_size_mb) of utils.py.
\* target_size_mb is a fraction num/den of megabytes; int() cuts the quotient.
calculate_target_bitrate(duration, target_size_mb) ==
    LET target_size_bits_num == target_size_mb.num * 8 * 1024 * 1024
        bitrate == target_size_bits_num \div (target_size_mb.den * duration)
        audio_bitrate == 128000
    IN  [video_bitrate |-> Max(500000, bitrate - audio_bitrate),
         audio_bitrate |-> audio_bitrate]

\* convert_chunk raising inside its try before the engine is started.
ConvertChunkNotRun ==
    [returned |-> FALSE, ran |-> FALSE, flags |-> <<>>, rate |-> NoRate, threads |-> 0,
     output |-> "absent"]

\* VideoProcessor.convert_chunk(chunk_file, output_file): the command it gives
\* the engine (string flags, numeric bitrate flags, -threads), whether the
\* engine was started, the state of output_file afterwards and what is
\* returned: os.path.exists(output_file), or False from the bare except.
\*   preset:      the flags of COMPRESSION_SETTINGS[compression_level];
\*   target size: tested only when no preset is set.  The chunk is probed; with
\*                no probe result no bitrate flag is added; line 149 reads
\*                self.total_duration (AttributeError when unbound), and
\*                calculate_target_bitrate divides by the chunk's duration;
\*   default:     video_params and audio_params.
convert_chunk(self, chunk, engine) ==
    LET run(flags, rate) ==
            IF engine = "raises"
            THEN ConvertChunkNotRun
            ELSE [returned |-> engine \in {"written", "empty"}, ran |-> TRUE,
                  flags |-> flags, rate |-> rate, threads |-> self.cores_to_use,
                  output |-> IF engine \in {"written", "empty"} THEN engine ELSE "absent"]
    IN  IF self.compression_level # ""
        THEN run(COMPRESSION_SETTINGS(self.compression_level), NoRate)
        ELSE IF self.target_size # NoTargetSize
        THEN IF ~chunk.info_ok
             THEN run(<<>>, NoRate)
             ELSE IF self.total_duration = NoTotalDuration \/ chunk.duration = 0
             THEN ConvertChunkNotRun
             ELSE LET chunk_duration == chunk.duration
                      chunk_target == [num |-> self.target_size * chunk_duration,
                                       den |-> self.total_duration]
                      b == calculate_target_bitrate(chunk_duration, chunk_target)
                  IN  run(<<>>, [b_v |-> b.video_bitrate,
                                 maxrate |-> (b.video_bitrate * 3) \div 2,
                                 bufsize |-> b.video_bitrate * 2,
                                 b_a |-> b.audio_bitrate])
        ELSE run(self.video_params \o DEFAULT_AUDIO_PARAMS, NoRate)

\* VideoProcessor.merge_chunks(chunk_files, final_output): the list file is
\* written from chunk_files as given (no path is tested), the engine is run,
\* the list file is unlinked and os.path.exists(final_output) is returned.
\* When subprocess.run raises, the bare except returns False and the list
\* file stays.
merge_chunks(chunk_files, engine) ==
    IF engine = "raises"
    THEN [returned |-> FALSE, ran |-> FALSE, listed |-> chunk_files,
          output |-> "absent", list_file_left |-> TRUE]
    ELSE [returned |-> engine \in {"written", "empty"}, ran |-> TRUE,
          listed |-> chunk_files,
          output |-> IF engine \in {"written", "empty"} THEN engine ELSE "absent",
          list_file_left |-> FALSE]

\* f"{duration:.1f} seconds" if duration else "Unknown", for a duration in
\* whole seconds: the digits before the point, the digit after it, the suffix.
format_duration(duration) ==
    IF duration = 0
    THEN [whole |-> 0, tenth |-> 0, text |-> "Unknown"]
    ELSE [whole |-> duration, tenth |-> 0, text |-> " seconds"]

\* The result dictionaries of convert_video.  The failure dictionary has only
\* success, input_file and error; its other fields are 0 here.
FailedResult(input_file, error) ==
    [success |-> FALSE, input_file |-> input_file, error |-> error,
     duration |-> format_duration(0), compression_ratio |-> 0]
SuccessResult(input_file, duration, ratio) ==
    [success |-> TRUE, input_file |-> input_file, error |-> "",
     duration |-> format_duration(duration), compression_ratio |-> ratio]

BothTempDirs == {"temp_dir", "temp_output_dir"}

\* Lines 230-271 of convert_video, summarised by their outcome: every chunk is
\* encoded in the pool and the results are read in submission order, a false
\* result raises, then merge_chunks gets the list, then the sizes are read; the
\* finally removes both directories.  The ratio input/output is 2 here.  When
\* the engine writes an empty output, merge_chunks returns true (the file
\* exists), output_size is 0 and line 257 raises ZeroDivisionError: the result
\* is a failure and the output file stays.  No call reaches these lines (see
\* convert_video), so the pool's interleavings are not modelled.
EncodeAndMerge(input_file, file, chunks, duration, chunk_duration) ==
    [result |-> IF file.fate = "ok"
                THEN SuccessResult(input_file, duration, 2)
                ELSE IF file.fate = "encode_fails"
                THEN FailedResult(input_file, "Failed to convert chunk")
                ELSE FailedResult(input_file, "float division by zero"),
     created |-> BothTempDirs, removed |-> BothTempDirs,
     chunk_duration |-> chunk_duration,
     merged |-> IF file.fate = "encode_fails" THEN <<>> ELSE <<chunks>>,
     output |-> file.fate # "encode_fails"]

\* convert_video with the two mkdtemp calls moved ahead of the output naming:
\* the directories exist when line 209 raises, outside the inner try.
convert_video_mkdtemp_first(self, input_file, file, chunk_size) ==
    [result |-> FailedResult(input_file, "name 'time' is not defined"),
     created |-> BothTempDirs, removed |-> {}, chunk_duration |-> 0, merged |-> <<>>,
     output |-> FALSE]

\* convert_video opening its output file for writing as soon as it is named,
\* before line 209's time stamp is read.
convert_video_output_opened_first(self, input_file, file, chunk_size) ==
    [result |-> FailedResult(input_file, "name 'time' is not defined"),
     created |-> {}, removed |-> {}, chunk_duration |-> 0, merged |-> <<>>,
     output |-> TRUE]

\* VideoProcessor.convert_video(input_file, output_dir, chunk_size): the result
\* it returns, the temporary directories it created and removed, the chunk
\* duration it used (0: none), the lists it handed to merge_chunks and whether
\* it left an output file in the output directory.
\*   line 209 reads the global time:  NameError, caught by the outer except;
\*   line 224 reads the local duration, bound only by line 221's assignment,
\*            when chunk_size is falsy: UnboundLocalError inside the inner try;
\*   line 221 unpacks create_optimized_chunks' return into two names;
\*   line 227 raises when no chunk came back.
\* The call fails on line 209 for every input, so it leaves self.ffmpeg_params
\* as it found them: optimize_video_params is never reached through it.
convert_video(self, input_file, file, chunk_size) ==
    IF "time" \notin processor_globals
    THEN [result |-> FailedResult(input_file, "name 'time' is not defined"),
          created |-> {}, removed |-> {}, chunk_duration |-> 0, merged |-> <<>>,
          output |-> FALSE]
    ELSE IF chunk_size = NoChunkSize
    THEN [result |-> FailedResult(input_file, "cannot access local variable 'duration' where it is not associated with a value"),
          created |-> BothTempDirs, removed |-> BothTempDirs, chunk_duration |-> 0,
          merged |-> <<>>, output |-> FALSE]
    ELSE
        LET info == IF file.on_disk THEN VideoInfo(file.duration, <<1280, 720>>) ELSE NoInfo
            r == create_optimized_chunks(self, info, chunk_size)
        IN  IF r.kind = "list"
            THEN [result |-> FailedResult(input_file, "not enough values to unpack (expected 2, got 0)"),
                  created |-> BothTempDirs, removed |-> BothTempDirs,
                  chunk_duration |-> chunk_size, merged |-> <<>>, output |-> FALSE]
            ELSE IF r.chunks = <<>>
            THEN [result |-> FailedResult(input_file, "Failed to create chunks"),
                  created |-> BothTempDirs, removed |-> BothTempDirs,
                  chunk_duration |-> chunk_size, merged |-> <<>>, output |-> FALSE]
            ELSE EncodeAndMerge(input_file, file, r.chunks, r.duration, chunk_size)

----------------------------------------------------------------------------
(* main (main.py) *)

stats_init == [successful |-> 0, failed |-> 0, total_size_reduction |-> 0, deleted_files |-> 0]

no_summary == [printed |-> FALSE, total |-> 0, successful |-> 0, failed |-> 0, avg_compression |-> 0]

\* line 81
avg_compression(st) ==
    IF st.successful > 0 THEN st.total_size_reduction \div st.successful ELSE 0

\* Lines 9-43: arguments, processor, output directory, file list.  An empty
\* list prints "No .ts files found!" and returns.
main_start ==
    /\ prog = "main"
    /\ pc = "start"
    /\ IF files = <<>>
       THEN pc' = "exited" /\ exit_status' = ExitClean
       ELSE pc' = "loop" /\ UNCHANGED exit_status
    /\ stats' = stats_init
    /\ idx' = 1
    /\ UNCHANGED <<prog, host, call, args, files, originals, runs, summary_stats, processor,
                   ret, calls, temp_dirs, output_exists, requests, cv>>

\* --keep-failed not read: the failure branch tests args.delete_original alone.
delete_wanted_keep_failed_unread(success) == args.delete_original

\* Whether the loop body calls os.remove(file): line 55 after a success,
\* line 64 after a failure.
delete_wanted(success) ==
    IF success
    THEN args.delete_original
    ELSE args.delete_original /\ ~args.keep_failed

\* The loop going on to the next file while convert_video is still at work on
\* this one: the call's return is not awaited and not recorded.
main_loop_body_no_wait ==
    /\ prog = "main"
    /\ pc = "loop"
    /\ idx <= Len(files)
    /\ idx' = idx + 1
    /\ temp_dirs' = temp_dirs \cup BothTempDirs
    /\ UNCHANGED <<prog, host, call, args, files, originals, stats, runs, pc, exit_status,
                   summary_stats, processor, ret, calls, output_exists, requests, cv>>

\* Lines 46-71: one iteration of the loop.  os.path.getsize (line 48) is outside
\* every try: for a path that names no file it raises and main ends with a
\* traceback.  os.remove may fail; the failure is printed as a warning.
main_loop_body ==
    /\ prog = "main"
    /\ pc = "loop"
    /\ idx <= Len(files)
    /\ IF idx \notin originals
       THEN /\ pc' = "traceback"
            /\ exit_status' = ExitTraceback
            /\ UNCHANGED <<idx, stats, runs, originals, temp_dirs, processor>>
       ELSE
         LET out == convert_video(processor, idx, files[idx], args.chunk_size)
             result == out.result
             wants_delete == delete_wanted(result.success)
         IN  \E removed \in {wants_delete, FALSE} :
               /\ stats' = [successful |-> stats.successful + (IF result.success THEN 1 ELSE 0),
                            failed |-> stats.failed + (IF result.success THEN 0 ELSE 1),
                            total_size_reduction |->
                                stats.total_size_reduction
                                + (IF result.success THEN result.compression_ratio ELSE 0),
                            deleted_files |-> stats.deleted_files + (IF removed THEN 1 ELSE 0)]
               /\ originals' = IF removed THEN originals \ {idx} ELSE originals
               /\ runs' = Append(runs, out)
               /\ temp_dirs' = (temp_dirs \cup out.created) \ out.removed
               /\ idx' = idx + 1
               /\ UNCHANGED <<pc, exit_status, processor>>
    /\ UNCHANGED <<prog, host, call, args, files, summary_stats, ret, calls, output_exists, requests, cv>>

\* Lines 73-90: the summary, after the last file.  main returns None and the
\* script ends: the exit status is 0 whatever the counters hold.
main_summary ==
    /\ prog = "main"
    /\ pc = "loop"
    /\ idx > Len(files)
    /\ summary_stats' = [printed |-> TRUE,
                         total |-> Len(files),
                         successful |-> stats.successful,
                         failed |-> stats.failed,
                         avg_compression |-> avg_compression(stats)]
    /\ pc' = "exited"
    /\ exit_status' = ExitClean
    /\ UNCHANGED <<prog, host, call, args, files, originals, idx, stats, runs, processor,
                   ret, calls, temp_dirs, output_exists, requests, cv>>

----------------------------------------------------------------------------
(* Direct calls of VideoProcessor.create_optimized_chunks by a client *)

no_ret == [called |-> FALSE, kind |-> "", chunks |-> <<>>, duration |-> 0,
           info |-> NoInfo, chunk_duration |-> 0]

api_create_optimized_chunks ==
    /\ prog = "processor_api"
    /\ calls < MaxCalls
    /\ \E video_info \in get_video_info_results, chunk_duration \in 1..MaxChunkDuration :
         LET r == create_optimized_chunks(processor, video_info, chunk_duration)
         IN  /\ ret' = [called |-> TRUE, kind |-> r.kind, chunks |-> r.chunks,
                        duration |-> r.duration, info |-> video_info,
                        chunk_duration |-> chunk_duration]
             /\ requests' = requests \o r.requests
             /\ processor' = [processor EXCEPT !.video_params = r.video_params]
    /\ calls' = calls + 1
    /\ UNCHANGED <<prog, host, call, args, files, originals, idx, stats, runs, pc, exit_status,
                   summary_stats, temp_dirs, output_exists, cv>>

----------------------------------------------------------------------------
(* Direct calls of VideoProcessor.convert_chunk and merge_chunks by a client *)

no_call == [method |-> "none", returned |-> FALSE, ran |-> FALSE, flags |-> <<>>,
            rate |-> NoRate, threads |-> 0, output |-> "absent", engine |-> "",
            chunk |-> [exists |-> FALSE, info_ok |-> FALSE, duration |-> 0],
            listed |-> <<>>, existing |-> {}, list_file_left |-> FALSE]

\* convert_chunk(chunk_file, output_file) on a chunk file and an output path
\* that names no file yet.  The engine writes an output only from a chunk file
\* that exists.
api_convert_chunk ==
    /\ prog = "encoder_api"
    /\ calls < MaxCalls
    /\ \E chunk \in ChunkFiles, engine \in EngineOutcomes :
         /\ engine \in {"written", "empty"} => chunk.exists
         /\ LET r == convert_chunk(processor, chunk, engine)
            IN  call' = [no_call EXCEPT !.method = "convert_chunk",
                                        !.returned = r.returned, !.ran = r.ran,
                                        !.flags = r.flags, !.rate = r.rate,
                                        !.threads = r.threads, !.output = r.output,
                                        !.engine = engine, !.chunk = chunk]
    /\ calls' = calls + 1
    /\ UNCHANGED <<prog, host, args, files, originals, idx, stats, runs, pc, exit_status,
                   summary_stats, processor, ret, temp_dirs, output_exists,
                   requests, cv>>

\* merge_chunks(chunk_files, final_output) on a list of up to MaxChunks encoded
\* chunk paths, of which those in `existing` name a file, and an output path
\* that names no file yet.  The engine reads the listed files in order: it
\* writes an output only when the first one exists.
api_merge_chunks ==
    /\ prog = "encoder_api"
    /\ calls < MaxCalls
    /\ \E n \in 0..MaxChunks, engine \in EngineOutcomes :
         \E existing \in SUBSET (0..(n - 1)) :
           /\ engine = "written" => 0 \in existing
           /\ LET chunk_files == [j \in 1..n |-> j - 1]
                  r == merge_chunks(chunk_files, engine)
              IN  call' = [no_call EXCEPT !.method = "merge_chunks",
                                          !.returned = r.returned, !.ran = r.ran,
                                          !.output = r.output, !.engine = engine,
                                          !.listed = r.listed,
                                          !.existing = existing,
                                          !.list_file_left = r.list_file_left]
    /\ calls' = calls + 1
    /\ UNCHANGED <<prog, host, args, files, originals, idx, stats, runs, pc, exit_status,
                   summary_stats, processor, ret, temp_dirs, output_exists,
                   requests, cv>>

----------------------------------------------------------------------------
(* converter.py: convert_video and the functions it calls *)

\* Durations of the inputs of the converter.py pipeline: up to MaxChunks chunks
\* of the default 60 seconds, whole and with a shorter last chunk; 0 is a probe
\* that reports no duration.  An input has a video stream or only audio
\* (cv.has_video): get_video_info asks for format=duration, which ffprobe
\* reports for either, and no line of converter.py reads the streams.
ConverterDurations ==
    {0} \cup {CreateChunksDefault * k - r : k \in 1..MaxChunks, r \in {0, 35}}

cv_idle == [pc |-> "idle", caller |-> "", D |-> 0, has_video |-> TRUE, chunk_duration |-> 0,
            duration |-> 0, temp_dir |-> "unbound", temp_output_dir |-> "unbound",
            num_chunks |-> 0, i |-> 0, chunks |-> <<>>, chunk_files |-> {},
            converted_chunks |-> <<>>, written |-> {}, merged |-> <<>>,
            encode_false |-> FALSE,
            result |-> FailedResult(0, ""), returned |-> FALSE]

\* The finally with the rmtree of temp_output_dir left out.
RemovedByFinally_temp_dir_only(temp_dir, temp_output_dir) ==
    IF temp_dir = "dir" THEN {"temp_dir"} ELSE {}

\* The finally of convert_video (lines 182-187): rmtree of the directories its
\* locals temp_dir and temp_output_dir name.  A local that is unbound is
\* skipped, and rmtree(None, ignore_errors=True) removes nothing.
RemovedByFinally(temp_dir, temp_output_dir) ==
    (IF temp_dir = "dir" THEN {"temp_dir"} ELSE {})
    \cup (IF temp_output_dir = "dir" THEN {"temp_output_dir"} ELSE {})

\* create_chunks returned (None, None), having made the directories `made`
\* before it failed: convert_video binds temp_dir to None and raises "Failed to
\* create chunks"; a client just gets the pair.
create_chunks_failed(made) ==
    IF cv.caller = "convert_video"
    THEN /\ cv' = [cv EXCEPT !.pc = "done", !.returned = TRUE, !.temp_dir = "None",
                             !.result = FailedResult(1, "Failed to create chunks")]
         /\ temp_dirs' = (temp_dirs \cup made) \ RemovedByFinally("None", cv.temp_output_dir)
         /\ UNCHANGED ret
    ELSE /\ cv' = [cv EXCEPT !.pc = "done", !.returned = TRUE]
         /\ ret' = [called |-> TRUE, kind |-> "tuple", chunks |-> <<>>, duration |-> 0,
                    info |-> NoInfo, chunk_duration |-> cv.chunk_duration]
         /\ temp_dirs' = temp_dirs \cup made

\* convert_video lines 124-135: the first get_video_info, for the duration that
\* is printed and reported.  ffprobe fails or reports the input's duration.
cv_probe ==
    /\ prog = "converter"
    /\ cv.pc = "start"
    /\ \E probed \in {0, cv.D} :
         cv' = [cv EXCEPT !.pc = "create_chunks", !.duration = probed]
    /\ UNCHANGED <<prog, host, call, args, files, originals, idx, stats, runs, pc, exit_status,
                   summary_stats, processor, ret, calls, temp_dirs, output_exists,
                   requests>>

\* create_chunks lines 48-58: its own get_video_info; no duration returns
\* (None, None); else mkdtemp and num_chunks = math.ceil(duration / chunk_duration),
\* which reads the global math.
cc_begin ==
    /\ prog \in {"converter", "create_chunks"}
    /\ cv.pc = "create_chunks"
    /\ \E probed \in {0, cv.D} :
         IF probed = 0
         THEN create_chunks_failed({})
         ELSE IF "math" \notin converter_globals
         THEN create_chunks_failed({"temp_dir"})
         ELSE /\ cv' = [cv EXCEPT !.pc = "extract",
                                  !.num_chunks = Ceil(probed, cv.chunk_duration),
                                  !.i = 0, !.chunks = <<>>]
              /\ temp_dirs' = temp_dirs \cup {"temp_dir"}
              /\ UNCHANGED ret
    /\ UNCHANGED <<prog, host, call, args, files, originals, idx, stats, runs, pc, exit_status,
                   summary_stats, processor, calls, output_exists, requests>>

\* The loop counting its chunks from 1.
ChunkRequest_from_one(i, chunk_duration) == [ss |-> (i + 1) * chunk_duration, t |-> chunk_duration]

\* The request of one iteration of create_chunks' loop (lines 62-73):
\* -ss i*chunk_duration -t chunk_duration.
ChunkRequest(i, chunk_duration) == [ss |-> i * chunk_duration, t |-> chunk_duration]

\* create_chunks lines 61-76: one iteration.  The engine writes the chunk file,
\* or fails and writes none (the return code is not read: the path is appended
\* either way), or subprocess.run raises and the except returns (None, None)
\* without removing the directory.
cc_extract ==
    /\ prog \in {"converter", "create_chunks"}
    /\ cv.pc = "extract"
    /\ cv.i < cv.num_chunks
    /\ \E outcome \in {"written", "nofile", "raises"} :
         IF outcome = "raises"
         THEN /\ create_chunks_failed({})
              /\ UNCHANGED requests
         ELSE /\ requests' = Append(requests, ChunkRequest(cv.i, cv.chunk_duration))
              /\ cv' = [cv EXCEPT !.i = cv.i + 1,
                                  !.chunks = Append(cv.chunks, cv.i),
                                  !.chunk_files = IF outcome = "written"
                                                  THEN cv.chunk_files \cup {cv.i}
                                                  ELSE cv.chunk_files]
              /\ UNCHANGED <<temp_dirs, ret>>
    /\ UNCHANGED <<prog, host, call, args, files, originals, idx, stats, runs, pc, exit_status,
                   summary_stats, processor, calls, output_exists>>

\* convert_video going on to the encode loop as soon as one chunk is extracted.
cc_return_after_first_chunk ==
    /\ prog \in {"converter", "create_chunks"}
    /\ cv.pc = "extract"
    /\ cv.i >= 1
    /\ cv' = [cv EXCEPT !.pc = "encode", !.i = 0, !.temp_dir = "dir",
                        !.temp_output_dir = "dir"]
    /\ temp_dirs' = temp_dirs \cup {"temp_output_dir"}
    /\ UNCHANGED <<prog, host, call, args, files, originals, idx, stats, runs, pc,
                   exit_status, summary_stats, processor, ret, calls, output_exists,
                   requests>>

\* create_chunks line 78: return temp_dir, chunks (the pair holds no duration:
\* ret.duration stays 0).  In convert_video (lines 139-145) the chunks are not
\* empty and temp_output_dir is made.
cc_return ==
    /\ prog \in {"converter", "create_chunks"}
    /\ cv.pc = "extract"
    /\ cv.i = cv.num_chunks
    /\ IF cv.caller = "convert_video"
       THEN /\ cv' = [cv EXCEPT !.pc = "encode", !.i = 0, !.temp_dir = "dir",
                                !.temp_output_dir = "dir"]
            /\ temp_dirs' = temp_dirs \cup {"temp_output_dir"}
            /\ UNCHANGED ret
       ELSE /\ cv' = [cv EXCEPT !.pc = "done", !.returned = TRUE]
            /\ ret' = [called |-> TRUE, kind |-> "tuple", chunks |-> cv.chunks,
                       duration |-> 0, info |-> NoInfo,
                       chunk_duration |-> cv.chunk_duration]
            /\ UNCHANGED temp_dirs
    /\ UNCHANGED <<prog, host, call, args, files, originals, idx, stats, runs, pc, exit_status,
                   summary_stats, processor, calls, output_exists, requests>>

\* The decimal digits of n >= 0, and f"{n:03d}": the digits, padded with
\* zeros on the left to three places (more digits are kept).
RECURSIVE Decimal(_)
Decimal(n) == IF n < 10 THEN <<n>> ELSE Append(Decimal(n \div 10), n % 10)
Pad03d(n) ==
    LET digits == Decimal(n)
    IN  IF Len(digits) >= 3 THEN digits
        ELSE [k \in 1..(3 - Len(digits)) |-> 0] \o digits

\* The path of chunk i as create_chunks names it (line 63):
\* os.path.join(temp_dir, f"chunk_{i:03d}.ts").
chunk_path(i) ==
    [dir |-> "temp_dir", prefix |-> "chunk_", digits |-> Pad03d(i), suffix |-> ".ts"]

\* The encode output named without the chunk's index.
converted_path_no_index(i) ==
    [dir |-> "temp_output_dir", prefix |-> "converted_", digits |-> Pad03d(0),
     suffix |-> ".mp4"]

\* The output path of the encode of chunk i (line 149; processor.py:238):
\* os.path.join(temp_output_dir, f"converted_{i:03d}.mp4").
converted_path(i) ==
    [dir |-> "temp_output_dir", prefix |-> "converted_", digits |-> Pad03d(i),
     suffix |-> ".mp4"]

\* convert_video lines 148-154: convert_chunk on chunk i.  It returns whether
\* the output file exists, which needs the chunk file; false raises "Failed to
\* convert chunk"; subprocess.run raising propagates to the same except.  The
\* engine writes the output path it is given (-y output_file) and no other.
cv_convert_chunk ==
    /\ prog = "converter"
    /\ cv.pc = "encode"
    /\ cv.i < Len(cv.chunks)
    /\ \E outcome \in {"exists", "absent", "raises"} :
         /\ outcome = "exists" => cv.i \in cv.chunk_files
         /\ IF outcome = "exists"
            THEN /\ cv' = [cv EXCEPT !.i = cv.i + 1,
                                     !.converted_chunks = Append(cv.converted_chunks, cv.i),
                                     !.written = cv.written \cup {converted_path(cv.i)}]
                 /\ UNCHANGED temp_dirs
            ELSE /\ cv' = [cv EXCEPT !.pc = "done", !.returned = TRUE,
                                     !.encode_false = (outcome = "absent"),
                                     !.result = FailedResult(1, "Failed to convert chunk")]
                 /\ temp_dirs' = temp_dirs \ RemovedByFinally(cv.temp_dir, cv.temp_output_dir)
    /\ UNCHANGED <<prog, host, call, args, files, originals, idx, stats, runs, pc, exit_status,
                   summary_stats, processor, ret, calls, output_exists, requests>>

\* convert_video lines 156-187: merge_chunks on converted_chunks, the cleanup
\* and the result.  merge_chunks returns whether the output exists.
cv_merge ==
    /\ prog = "converter"
    /\ cv.pc = "encode"
    /\ cv.i = Len(cv.chunks)
    /\ \E merged_ok \in BOOLEAN :
         /\ cv' = [cv EXCEPT !.pc = "done", !.returned = TRUE,
                             !.merged = Append(cv.merged, cv.converted_chunks),
                             !.result = IF merged_ok
                                        THEN SuccessResult(1, cv.duration, 0)
                                        ELSE FailedResult(1, "Failed to merge chunks")]
         /\ output_exists' = merged_ok
    /\ temp_dirs' = temp_dirs \ RemovedByFinally(cv.temp_dir, cv.temp_output_dir)
    /\ UNCHANGED <<prog, host, call, args, files, originals, idx, stats, runs, pc, exit_status,
                   summary_stats, processor, ret, calls, requests>>

----------------------------------------------------------------------------
(* Specification *)

default_args == [delete_original |-> FALSE, keep_failed |-> FALSE, chunk_size |-> NoChunkSize]
default_intent == [compression_level |-> "", target_size |-> NoTargetSize]

InitMain ==
    /\ prog = "main"
    /\ args \in [delete_original : BOOLEAN, keep_failed : BOOLEAN, chunk_size : {NoChunkSize, 30}]
    /\ files \in SeqsUpTo(FileKinds, MaxFiles)
    /\ host = default_host
    /\ processor = VideoProcessorInit(default_intent, DefaultCpuLimit, host)
    /\ cv = cv_idle

InitConverter ==
    /\ prog = "converter"
    /\ args = default_args
    /\ files = <<>>
    /\ host = default_host
    /\ processor = VideoProcessorInit(default_intent, DefaultCpuLimit, host)
    /\ \E D \in ConverterDurations, has_video \in BOOLEAN :
         cv = [cv_idle EXCEPT !.pc = "start", !.caller = "convert_video", !.D = D,
                              !.has_video = has_video,
                              !.chunk_duration = CreateChunksDefault]

InitCreateChunks ==
    /\ prog = "create_chunks"
    /\ args = default_args
    /\ files = <<>>
    /\ host = default_host
    /\ processor = VideoProcessorInit(default_intent, DefaultCpuLimit, host)
    /\ \E D \in 0..MaxDuration, C \in 1..MaxChunkDuration :
         cv = [cv_idle EXCEPT !.pc = "create_chunks", !.caller = "client", !.D = D,
                              !.chunk_duration = C]

InitProcessorApi ==
    /\ prog = "processor_api"
    /\ args = default_args
    /\ files = <<>>
    /\ host = default_host
    /\ \E intent \in Intents :
         processor = VideoProcessorInit(intent, DefaultCpuLimit, host)
    /\ cv = cv_idle

InitEncoderApi ==
    /\ prog = "encoder_api"
    /\ args = default_args
    /\ files = <<>>
    /\ host \in Hosts
    /\ \E intent \in ConstructorArgs, cpu_limit \in CpuLimits :
         processor = VideoProcessorInit(intent, cpu_limit, host)
    /\ cv = cv_idle

Init ==
    /\ \/ InitMain
       \/ InitConverter
       \/ InitCreateChunks
       \/ InitProcessorApi
       \/ InitEncoderApi
    /\ originals = {k \in 1..Len(files) : files[k].on_disk}
    /\ idx = 0
    /\ stats = stats_init
    /\ runs = <<>>
    /\ pc = "start"
    /\ exit_status = NotExited
    /\ summary_stats = no_summary
    /\ ret = no_ret
    /\ calls = 0
    /\ call = no_call
    /\ temp_dirs = {}
    /\ output_exists = FALSE
    /\ requests = <<>>

Next ==
    \/ main_start
    \/ main_loop_body
    \/ main_summary
    \/ api_create_optimized_chunks
    \/ api_convert_chunk
    \/ api_merge_chunks
    \/ cv_probe
    \/ cc_begin
    \/ cc_extract
    \/ cc_return
    \/ cv_convert_chunk
    \/ cv_merge

Spec == Init /\ [][Next]_vars

----------------------------------------------------------------------------
(* Properties *)

\* An input the engine handles without a failure: it is on disk, its probe
\* reports a duration > 0, and every extraction, encode and merge would succeed.
Healthy(file) == file.on_disk /\ file.duration > 0 /\ file.fate = "ok"

\* clamp(D/10, 30, 300) for a duration in whole seconds.  D/10 is cut to whole
\* seconds, which changes nothing for the durations of BatchDurations.
DefaultChunkDuration(D) == Min(MAX_CHUNK_SIZE, Max(MIN_CHUNK_SIZE, D \div 10))

\* The chunk duration a conversion of the batch is meant to use.
IntendedChunkDuration(file) ==
    IF args.chunk_size # NoChunkSize THEN args.chunk_size ELSE DefaultChunkDuration(file.duration)

\* C1: a healthy input with duration D > 0, converted by VideoProcessor.convert_video
\* with no chunk size and the default intent, ends in Done: success=True, the
\* merged output exists, and the duration is reported as "D.0 seconds".
C1_HealthyInputConverts ==
    \A k \in 1..Len(runs) :
        (prog = "main" /\ args.chunk_size = NoChunkSize /\ Healthy(files[k]))
        => /\ runs[k].result.success
           /\ runs[k].result.duration = format_duration(files[k].duration)
           /\ Len(runs[k].merged) = 1

C3_MergeGetsEveryChunkInOrder ==
    \A k \in 1..Len(runs) :
        (prog = "main" /\ Healthy(files[k]))
        => LET n == Ceil(files[k].duration, IntendedChunkDuration(files[k]))
           IN  runs[k].merged = << [j \in 1..n |-> j - 1] >>

C5_PlansCeilChunks ==
    (prog = "processor_api" /\ ret.called /\ ret.info.ok)
    => LET n == Ceil(ret.info.duration, ret.chunk_duration)
       IN  ret.chunks = [j \in 1..n |-> j - 1]

\* create_chunks has run its loop to the end and returned its chunk list.
CreateChunksReturned ==
    /\ prog \in {"converter", "create_chunks"}
    /\ cv.pc \in {"encode", "done"}
    /\ cv.chunks # <<>>
    /\ Len(cv.chunks) = cv.num_chunks

ClippedEnd(r, D) == Min(r.ss + r.t, D)

C7_DefaultChunkDurationUsed ==
    \A k \in 1..Len(runs) :
        (prog = "main" /\ args.chunk_size = NoChunkSize /\ files[k].on_disk)
        => /\ runs[k].chunk_duration = DefaultChunkDuration(files[k].duration)
           /\ runs[k].chunk_duration \in MIN_CHUNK_SIZE..MAX_CHUNK_SIZE

\* main has ended, by returning or by an uncaught exception.
MainEnded == prog = "main" /\ pc \in {"exited", "traceback"}

\* C8: when main has ended, every file of the batch was processed exactly once
\* and counted as successful or failed: successful + failed = N, in the
\* summary that is printed.
C8_BatchNeverAborts ==
    (MainEnded /\ files # <<>>)
    => /\ Len(runs) = Len(files)
       /\ stats.successful + stats.failed = Len(files)
       /\ summary_stats.printed
       /\ summary_stats.successful + summary_stats.failed = summary_stats.total

RECURSIVE SumRatios(_)
SumRatios(rs) ==
    IF rs = <<>> THEN 0
    ELSE (IF Head(rs).result.success THEN Head(rs).result.compression_ratio ELSE 0)
         + SumRatios(Tail(rs))

Successes(rs) == Cardinality({k \in 1..Len(rs) : rs[k].result.success})

\* C9: the summary's average compression ratio is the sum of the successful
\* conversions' ratios over their number, 0 without a success; a batch of 3
\* files on disk of which exactly 1 fails at the encode stage is summarised as
\* successful=2, failed=1.
C9_AverageOverSuccesses ==
    (prog = "main" /\ summary_stats.printed)
    => /\ summary_stats.avg_compression =
            (IF Successes(runs) > 0 THEN SumRatios(runs) \div Successes(runs) ELSE 0)
       /\ ( /\ Len(files) = 3
            /\ \A k \in 1..3 : files[k].on_disk
            /\ Cardinality({k \in 1..3 : files[k].fate = "encode_fails"}) = 1 )
          => (summary_stats.successful = 2 /\ summary_stats.failed = 1)

\* C10: the exit status of main tells a batch with a failed file from a batch
\* in which every file succeeded: it is the status of a clean run only when no
\* file failed.
C10_ExitStatusTellsFailure ==
    (prog = "main" /\ pc = "exited" /\ stats.failed > 0) => exit_status # ExitClean

C12_TrueIffOutputNonEmpty ==
    (prog = "encoder_api" /\ call.method = "convert_chunk")
    => (call.returned <=> call.output = "written")

\* C13: merge_chunks reports success only when every listed chunk path named a
\* file and the output is present and not empty after the concatenation call;
\* with a listed chunk missing, or the output absent or empty, it reports
\* failure.
C13_MergeTrueIffAllChunksAndOutput ==
    (prog = "encoder_api" /\ call.method = "merge_chunks")
    => (call.returned
        <=> /\ \A j \in 1..Len(call.listed) : call.listed[j] \in call.existing
            /\ call.output = "written")

\* Some chunk path that create_chunks listed names no file: the engine failed
\* to produce that chunk during extraction.
ExtractionLeftChunkMissing ==
    \E j \in 1..Len(cv.chunks) : cv.chunks[j] \notin cv.chunk_files

\* C14: a stage failure moves the pipeline of a file directly to Failed with
\* that stage's error, no later stage is run: once the engine has failed to
\* produce a chunk file during extraction, no chunk encode is started, and the
\* conversion returns the failure of the chunking stage.
C14_ExtractionFailureFailsAtChunking ==
    (prog = "converter" /\ ExtractionLeftChunkMissing)
    => /\ cv.pc # "encode"
       /\ cv.converted_chunks = <<>>
       /\ cv.merged = <<>>
       /\ cv.returned => (~cv.result.success /\ cv.result.error = "Failed to create chunks")

\* C15: when probing the input fails (the file is unreadable, has no video
\* stream, or has a zero or unparseable duration) the conversion fails at the
\* probing step: no chunk is extracted, no chunk is encoded, and a failed
\* result is returned.
C15_ProbeFailureFailsAtProbing ==
    /\ (prog = "converter" /\ (cv.D = 0 \/ ~cv.has_video))
       => /\ requests = <<>>
          /\ cv.pc \notin {"extract", "encode"}
          /\ cv.converted_chunks = <<>>
          /\ cv.returned => ~cv.result.success
    /\ (prog = "processor_api" /\ ret.called /\ (~ret.info.ok \/ ~ret.info.has_video))
       => (ret.chunks = <<>> /\ requests = <<>>)

\* floor(totalCores * cpuFraction), the fraction being cpu_limit percent.
FloorOfShare(cpu_count, cpu_limit) == (cpu_count * cpu_limit) \div 100

C17_OneIntentByConstruction ==
    prog \in {"main", "processor_api", "encoder_api"}
    => ~(processor.compression_level # "" /\ processor.target_size # NoTargetSize)

\* C18: with target-size intent, the encoder is given for every chunk the video
\* bitrate max(500000, floor(targetMB*8*1024*1024 / totalDuration) - 128000),
\* whatever the chunk's own duration, maxrate 1.5 times and bufsize 2 times
\* that bitrate, and audio bitrate 128000.
C18_TargetSizeBitrate ==
    ( /\ prog = "encoder_api"
      /\ call.method = "convert_chunk"
      /\ processor.compression_level = ""
      /\ processor.target_size # NoTargetSize
      /\ call.chunk.info_ok
      /\ call.chunk.duration > 0
      /\ call.engine # "raises" )
    => /\ call.ran
       /\ processor.total_duration # NoTotalDuration
       /\ LET video_bitrate ==
                  Max(500000,
                      ((processor.target_size * 8 * 1024 * 1024) \div processor.total_duration)
                      - 128000)
          IN  call.rate = [b_v |-> video_bitrate,
                           maxrate |-> (3 * video_bitrate) \div 2,
                           bufsize |-> 2 * video_bitrate,
                           b_a |-> 128000]

\* The places of the -b:v flags in a parameter list.
BitrateFlagsAt(params) == {i \in 1..Len(params) : params[i] = "-b:v"}

\* The bitrate tier of a pixel count: the flags (none at or below 921600).
TierOfPixels(pixels) ==
    IF pixels > 2073600
    THEN <<"-b:v", "5000k", "-maxrate", "7500k", "-bufsize", "10000k">>
    ELSE IF pixels > 921600
    THEN <<"-b:v", "2500k", "-maxrate", "4000k", "-bufsize", "5000k">>
    ELSE <<>>

\* C19: with default intent, the encoder parameters for a file carry exactly
\* one bitrate tier, chosen by the file's pixel count: above 2073600 the tier
\* 5000k/7500k/10000k with profile high, level 4.1; above 921600 the tier
\* 2500k/4000k/5000k; at or below 921600 no -b:v flag at all.
C19_OneTierByPixels ==
    ( /\ prog = "processor_api"
      /\ ret.called
      /\ ret.info.ok
      /\ ret.info.has_video
      /\ processor.compression_level = ""
      /\ processor.target_size = NoTargetSize )
    => LET pixels == ret.info.width * ret.info.height
           params == processor.video_params
           tier == TierOfPixels(pixels)
           at == BitrateFlagsAt(params)
       IN  /\ Cardinality(at) = (IF tier = <<>> THEN 0 ELSE 1)
           /\ \A i \in at : SubSeq(params, i, i + 5) = tier
           /\ pixels > 2073600
              => \E i \in 1..(Len(params) - 3) :
                    SubSeq(params, i, i + 3) = <<"-profile:v", "high", "-level", "4.1">>

\* C20: with --delete-original, main deletes the original of a file only after
\* that file's conversion succeeded: the original of a file whose conversion
\* failed is still on disk.
C20_OnlyConvertedOriginalsDeleted ==
    \A k \in 1..Len(runs) :
        (prog = "main" /\ args.delete_original /\ files[k].on_disk /\ k \notin originals)
        => runs[k].result.success

\* The VideoProcessor a client would construct afresh with the settings of
\* the one at hand.
FreshProcessor ==
    VideoProcessorInit([compression_level |-> processor.compression_level,
                        target_size |-> processor.target_size],
                       processor.cpu_limit, host)

\* C21: when one VideoProcessor handles several files in sequence, the encoder
\* parameter list it holds for the file at hand is the list a freshly
\* constructed processor with the same settings would hold for that file
\* alone: it depends on that file's probe data and the intent, not on the
\* files handled before.
C21_ParamsIndependentOfEarlierFiles ==
    (prog = "processor_api" /\ ret.called /\ ret.info.ok)
    => processor.video_params = optimize_video_params(FreshProcessor, ret.info)

\* convert_video of converter.py is in or past its encode loop.
EncodeStageEntered ==
    /\ prog = "converter"
    /\ \/ cv.pc = "encode"
       \/ cv.converted_chunks # <<>>
       \/ cv.encode_false
       \/ cv.merged # <<>>

\* C22: chunk extraction is sequential and in index order: the k-th engine
\* call extracts chunk k-1, each call has returned before the next is made
\* (as many requests were made as loop iterations are done), and no chunk
\* encode starts before the extraction of every chunk of the file has
\* returned.
C22_ExtractionSequentialInOrder ==
    prog \in {"converter", "create_chunks"}
    => /\ \A k \in 1..Len(requests) : requests[k].ss = (k - 1) * cv.chunk_duration
       /\ \A k \in 1..Len(cv.chunks) : cv.chunks[k] = k - 1
       /\ cv.pc = "extract" => (Len(requests) = cv.i /\ Len(cv.chunks) = cv.i)
       /\ EncodeStageEntered
          => (Len(requests) = cv.num_chunks /\ Len(cv.chunks) = cv.num_chunks)

\* C22 witness: a file of several chunks was extracted and its first chunk
\* has been encoded.
C22_Witness ==
    /\ prog = "converter"
    /\ cv.num_chunks >= 2
    /\ Len(requests) = cv.num_chunks
    /\ cv.converted_chunks # <<>>

C25_NoTemporaryFileLeft ==
    /\ (prog = "encoder_api" /\ call.method = "merge_chunks") => ~call.list_file_left
    /\ (prog = "converter" /\ cv.returned) => temp_dirs = {}

\* The originals main has removed so far.
RemovedOriginals == {k \in 1..Len(files) : files[k].on_disk} \ originals

\* C26: main deletes no original when --delete-original is not set; with
\* --keep-failed set it deletes no original of a file whose conversion failed;
\* and the deleted_files counter is the number of originals removed.
C26_DeletePolicyAndCounter ==
    prog = "main"
    => /\ ~args.delete_original => RemovedOriginals = {}
       /\ args.keep_failed
          => \A k \in 1..Len(runs) : ~runs[k].result.success => k \notin RemovedOriginals
       /\ stats.deleted_files = Cardinality(RemovedOriginals)

\* C26 witness: with --delete-original, three files were handled, two
\* originals were removed and one os.remove failed.
C26_Witness ==
    /\ prog = "main"
    /\ args.delete_original
    /\ Len(runs) = 3
    /\ stats.deleted_files = 2
    /\ Cardinality(RemovedOriginals) = 2

====
